---- MODULE Spec2Model ----
(***************************************************************************)
(* Session registry and event router of the Pong relay server              *)
(* (src/server.js): GameManager (activeGames, playerSockets) and the       *)
(* per-connection socket.io handlers.  Every handler runs to completion on *)
(* the single-threaded event loop, so each handler is one action.          *)
(*                                                                         *)
(* Four specifications share the handlers:                                 *)
(*   Spec          two connections, the sweep timer and an advancing clock *)
(*   SpecTrio      three connections, matchmaking and teardown events      *)
(*   SpecJoinRace  runs of joinGame events aimed at one waiting session    *)
(*   SpecLive      Spec with the timer and the clock under weak fairness   *)
(* Spec_part000 runs the handler set of src/unnamed/part_000.              *)
(*                                                                         *)
(* generateGameId is a random draw, so the id of a new session is any id   *)
(* the run can draw, ids in use included.  Math.random() = 0 makes the id  *)
(* the empty string, which the handlers' if (gameId) tests take for no id. *)
(* The heartbeat probe (socket.emit('ping')) reads and writes nothing of   *)
(* the registry and is left out; its reply is the action Pong.             *)
(***************************************************************************)
EXTENDS Integers, Sequences, FiniteSets, TLC

(* ---------------------------------------------------------------------- *)
(* Bounds of the model and program constants                               *)
(* ---------------------------------------------------------------------- *)

\* socket ids of the connections the server sees (socket.id is never reused)
Conns == {"s1", "s2", "s3"}

\* the connections of the specification in which the clock advances
Pair == {"s1", "s2"}

\* values generateGameId can return: '0'.substring(2, 8) is the empty string
GameIds == {"", "G1", "G2"}

\* the ids one run of the server draws from
IdDraws == {{"G1", "G2"}, {"", "G1"}}

\* the playerName each client sends (two clients share a name)
NamesOf(c) == IF c = "s1" THEN {"Alice"} ELSE {"Bob"}

\* Date.now() is sampled at 0 and at inactiveThreshold + j, 0 <= j <= MaxJitter
MaxJitter == 1

\* setInterval(() => this.cleanupInactiveGames(), 60000)
cleanupPeriod == 60000

\* const inactiveThreshold = 1000 * 60 * 5
inactiveThreshold == 1000 * 60 * 5

\* remainingTime: 120
initialRemainingTime == 120

Instants == {0} \cup {inactiveThreshold + j : j \in 0..MaxJitter}

(* ---------------------------------------------------------------------- *)
(* JavaScript values and Map operations                                    *)
(* ---------------------------------------------------------------------- *)

NULL == "null"
UNDEFINED == "undefined"

\* !v for the values the handlers test: null, undefined and the empty string
Falsy(v) == v \in {NULL, UNDEFINED, ""}

\* Map.prototype.has / get / set / delete on a map held as a function
MapHas(m, k) == k \in DOMAIN m
MapGet(m, k) == IF k \in DOMAIN m THEN m[k] ELSE UNDEFINED
MapSet(m, k, v) == [x \in DOMAIN m \cup {k} |-> IF x = k THEN v ELSE m[x]]
MapDelete(m, k) == [x \in DOMAIN m \ {k} |-> m[x]]

EmptyMap == [x \in {} |-> NULL]

(* ---------------------------------------------------------------------- *)
(* State                                                                   *)
(* ---------------------------------------------------------------------- *)

VARIABLES
  activeGames,    \* GameManager.activeGames: gameId -> game record
  playerSockets,  \* GameManager.playerSockets: socket id -> gameId
  rooms,          \* socket.io rooms named by a game id: gameId -> set of sockets
  connected,      \* sockets whose 'disconnect' has not yet run
  now,            \* Date.now()
  event,          \* the name of the event whose handler ran last
  reply,          \* what that handler passed to its caller's callback
  out,            \* what that handler emitted, in order
  log             \* what a run of joinGame events, or the last handler, did

vars == <<activeGames, playerSockets, rooms, connected, now, event, reply, out, log>>

NoReply == [status |-> "none"]

\* an event without payload
NoData == [x \in {} |-> NULL]

\* the receivers of io.to(room).emit(...): a socket's own room, or a game room
Recipients(room, rms, conn) ==
  IF room \in conn THEN {room}
  ELSE IF room \in DOMAIN rms THEN rms[room] \cap conn
  ELSE {}

\* io.to(room).emit(ev, data)
Emit(room, name, data, rms, conn) ==
  [to |-> room, ev |-> name, data |-> data, rcpt |-> Recipients(room, rms, conn)]

(* ---------------------------------------------------------------------- *)
(* GameManager                                                             *)
(* ---------------------------------------------------------------------- *)

\* the gameData literal of createGame
NewGame(gameId, hostId, hostName, t) ==
  [id |-> gameId, host |-> hostId, hostName |-> hostName,
   guest |-> NULL, guestName |-> NULL,
   ball |-> NULL, leftScore |-> 0, rightScore |-> 0,
   leftPaddle |-> 0, rightPaddle |-> 0,
   remainingTime |-> initialRemainingTime,
   lastActivity |-> t, status |-> "waiting"]

\* createGame(hostId, hostName), gameId being what generateGameId returned
createGame(ag, ps, gameId, hostId, hostName, t) ==
  [activeGames |-> MapSet(ag, gameId, NewGame(gameId, hostId, hostName, t)),
   playerSockets |-> MapSet(ps, hostId, gameId),
   game |-> {NewGame(gameId, hostId, hostName, t)}]

\* joinGame registering the guest in playerSockets before it looks at the session
joinGame_indexBeforeCheck(ag, ps, gameId, guestId, guestName, t) ==
  IF ~MapHas(ag, gameId) \/ ~Falsy(ag[gameId].guest)
  THEN [activeGames |-> ag, playerSockets |-> MapSet(ps, guestId, gameId), game |-> {}]
  ELSE LET game == [ag[gameId] EXCEPT !.guest = guestId,
                                      !.guestName = guestName,
                                      !.status = "playing",
                                      !.lastActivity = t]
       IN [activeGames |-> MapSet(ag, gameId, game),
           playerSockets |-> MapSet(ps, guestId, gameId),
           game |-> {game}]

\* joinGame leaving the status of the joined session as it was
joinGame_keepsStatus(ag, ps, gameId, guestId, guestName, t) ==
  IF ~MapHas(ag, gameId) \/ ~Falsy(ag[gameId].guest)
  THEN [activeGames |-> ag, playerSockets |-> ps, game |-> {}]
  ELSE LET game == [ag[gameId] EXCEPT !.guest = guestId,
                                      !.guestName = guestName,
                                      !.lastActivity = t]
       IN [activeGames |-> MapSet(ag, gameId, game),
           playerSockets |-> MapSet(ps, guestId, gameId),
           game |-> {game}]

\* joinGame(gameId, guestId, guestName); game = {} stands for return null
joinGame(ag, ps, gameId, guestId, guestName, t) ==
  IF ~MapHas(ag, gameId) \/ ~Falsy(ag[gameId].guest)
  THEN [activeGames |-> ag, playerSockets |-> ps, game |-> {}]
  ELSE LET game == [ag[gameId] EXCEPT !.guest = guestId,
                                      !.guestName = guestName,
                                      !.status = "playing",
                                      !.lastActivity = t]
       IN [activeGames |-> MapSet(ag, gameId, game),
           playerSockets |-> MapSet(ps, guestId, gameId),
           game |-> {game}]

\* removeGame forgetting the guest's playerSockets entry
removeGame_keepGuest(ag, ps, gameId) ==
  IF ~MapHas(ag, gameId)
  THEN [activeGames |-> ag, playerSockets |-> ps]
  ELSE [activeGames |-> MapDelete(ag, gameId),
        playerSockets |-> MapDelete(ps, ag[gameId].host)]

\* removeGame(gameId)
removeGame(ag, ps, gameId) ==
  IF ~MapHas(ag, gameId)
  THEN [activeGames |-> ag, playerSockets |-> ps]
  ELSE LET game == ag[gameId]
           ps1 == MapDelete(ps, game.host)
           ps2 == IF ~Falsy(game.guest) THEN MapDelete(ps1, game.guest) ELSE ps1
       IN [activeGames |-> MapDelete(ag, gameId), playerSockets |-> ps2]

\* the idle test with >= in place of >
Inactive_inclusive(game, t) == t - game.lastActivity >= inactiveThreshold

\* now - game.lastActivity > inactiveThreshold
Inactive(game, t) == t - game.lastActivity > inactiveThreshold

\* the loop of cleanupInactiveGames over the entries still to visit (a Map's
\* iterator skips the entries deleted before it reaches them)
RECURSIVE cleanupLoop(_, _, _, _)
cleanupLoop(ag, ps, todo, t) ==
  IF todo = {} THEN [activeGames |-> ag, playerSockets |-> ps]
  ELSE LET gameId == CHOOSE g \in todo : TRUE
           r == IF MapHas(ag, gameId) /\ Inactive(ag[gameId], t)
                THEN removeGame(ag, ps, gameId)
                ELSE [activeGames |-> ag, playerSockets |-> ps]
       IN cleanupLoop(r.activeGames, r.playerSockets, todo \ {gameId}, t)

\* cleanupInactiveGames()
cleanupInactiveGames(ag, ps, t) == cleanupLoop(ag, ps, DOMAIN ag, t)

\* getAvailableGames(); the order of the array is not modelled
getAvailableGames(ag) ==
  {[id |-> ag[g].id, name |-> ag[g].hostName \o "'s Game", createdAt |-> ag[g].lastActivity]
     : g \in {x \in DOMAIN ag : ag[x].status = "waiting"}}

(* ---------------------------------------------------------------------- *)
(* Handlers                                                                *)
(* ---------------------------------------------------------------------- *)

\* the server after start-up, with the sockets of C connected
InitOf(C) ==
  /\ activeGames = EmptyMap
  /\ playerSockets = EmptyMap
  /\ \E ids \in IdDraws : rooms = [g \in ids |-> {}]
  /\ connected = C
  /\ now = 0
  /\ event = "listen"
  /\ reply = NoReply
  /\ out = <<>>
  /\ log = <<>>

\* socket.on('pong')
Pong(c) ==
  /\ c \in connected
  /\ event' = "pong"
  /\ LET gameId == MapGet(playerSockets, c)
     IN activeGames' =
          IF ~Falsy(gameId) /\ MapHas(activeGames, gameId)
          THEN [activeGames EXCEPT ![gameId].lastActivity = now]
          ELSE activeGames
  /\ reply' = NoReply
  /\ out' = <<>>
  /\ UNCHANGED <<playerSockets, rooms, connected, now>>

\* socket.on('createGame'), gameId being what generateGameId returns
CreateGame(c, playerName, gameId) ==
  /\ c \in connected
  /\ event' = "createGame"
  /\ LET r == createGame(activeGames, playerSockets, gameId, c, playerName, now)
     IN /\ activeGames' = r.activeGames
        /\ playerSockets' = r.playerSockets
        /\ rooms' = [rooms EXCEPT ![gameId] = @ \cup {c}]
        /\ reply' = [status |-> "success", gameId |-> gameId]
        /\ out' = <<>>
  /\ UNCHANGED <<connected, now>>

\* socket.on('joinGame')
JoinGame(c, gameId, playerName) ==
  /\ c \in connected
  /\ event' = "joinGame"
  /\ LET r == joinGame(activeGames, playerSockets, gameId, c, playerName, now)
     IN /\ activeGames' = r.activeGames
        /\ playerSockets' = r.playerSockets
        /\ IF r.game = {}
           THEN /\ reply' = [status |-> "error", message |-> "Game not found or full"]
                /\ out' = <<>>
                /\ rooms' = rooms
           ELSE /\ rooms' = [rooms EXCEPT ![gameId] = @ \cup {c}]
                /\ out' = <<Emit((CHOOSE g \in r.game : TRUE).host, "gameStart",
                                 [rightPlayer |-> playerName], rooms', connected)>>
                /\ reply' = [status |-> "success"]
  /\ UNCHANGED <<connected, now>>

\* socket.on('cancelGame')
CancelGame(c, gameId) ==
  /\ c \in connected
  /\ event' = "cancelGame"
  /\ IF MapHas(activeGames, gameId) /\ activeGames[gameId].host = c
     THEN LET game == activeGames[gameId]
              r == removeGame(activeGames, playerSockets, gameId)
          IN /\ out' = IF ~Falsy(game.guest)
                       THEN <<Emit(game.guest, "gameCancelled", NoData, rooms, connected)>>
                       ELSE <<>>
             /\ activeGames' = r.activeGames
             /\ playerSockets' = r.playerSockets
     ELSE /\ out' = <<>>
          /\ UNCHANGED <<activeGames, playerSockets>>
  /\ reply' = NoReply
  /\ UNCHANGED <<rooms, connected, now>>

\* socket.on('paddleMove')
PaddleMove(c, y) ==
  /\ c \in connected
  /\ event' = "paddleMove"
  /\ LET gameId == MapGet(playerSockets, c)
     IN IF Falsy(gameId) \/ ~MapHas(activeGames, gameId)
        THEN /\ out' = <<>>
             /\ UNCHANGED activeGames
        ELSE LET game == activeGames[gameId]
             IN IF c = game.host
                THEN /\ activeGames' = [activeGames EXCEPT ![gameId].lastActivity = now,
                                                           ![gameId].leftPaddle = y]
                     /\ out' = <<Emit(game.guest, "paddleMove", [y |-> y], rooms, connected)>>
                ELSE IF c = game.guest
                THEN /\ activeGames' = [activeGames EXCEPT ![gameId].lastActivity = now,
                                                           ![gameId].rightPaddle = y]
                     /\ out' = <<Emit(game.host, "paddleMove", [y |-> y], rooms, connected)>>
                ELSE /\ activeGames' = [activeGames EXCEPT ![gameId].lastActivity = now]
                     /\ out' = <<>>
  /\ reply' = NoReply
  /\ UNCHANGED <<playerSockets, rooms, connected, now>>

\* the guard without the host test: any member of the session passes
HostOfOwnGame_anyMember(c) ==
  LET gameId == MapGet(playerSockets, c)
  IN /\ ~Falsy(gameId)
     /\ MapHas(activeGames, gameId)
     /\ c \in {activeGames[gameId].host, activeGames[gameId].guest}

\* the guard shared by ballUpdate, scoreUpdate, timerUpdate and gameEnd:
\* the caller is mapped to a session that exists and whose host it is
HostOfOwnGame(c) ==
  LET gameId == MapGet(playerSockets, c)
  IN /\ ~Falsy(gameId)
     /\ MapHas(activeGames, gameId)
     /\ c = activeGames[gameId].host

\* socket.on('ballUpdate')
BallUpdate(c, ball) ==
  /\ c \in connected
  /\ event' = "ballUpdate"
  /\ IF HostOfOwnGame(c)
     THEN LET gameId == playerSockets[c]
          IN /\ activeGames' = [activeGames EXCEPT ![gameId].ball = ball,
                                                   ![gameId].lastActivity = now]
             /\ out' = <<Emit(activeGames[gameId].guest, "ballUpdate",
                              [ball |-> ball], rooms, connected)>>
     ELSE /\ out' = <<>>
          /\ UNCHANGED activeGames
  /\ reply' = NoReply
  /\ UNCHANGED <<playerSockets, rooms, connected, now>>

\* socket.on('scoreUpdate')
ScoreUpdate(c, leftScore, rightScore) ==
  /\ c \in connected
  /\ event' = "scoreUpdate"
  /\ IF HostOfOwnGame(c)
     THEN LET gameId == playerSockets[c]
          IN /\ activeGames' = [activeGames EXCEPT ![gameId].leftScore = leftScore,
                                                   ![gameId].rightScore = rightScore,
                                                   ![gameId].lastActivity = now]
             /\ out' = <<Emit(activeGames[gameId].guest, "scoreUpdate",
                              [leftScore |-> leftScore, rightScore |-> rightScore],
                              rooms, connected)>>
     ELSE /\ out' = <<>>
          /\ UNCHANGED activeGames
  /\ reply' = NoReply
  /\ UNCHANGED <<playerSockets, rooms, connected, now>>

\* socket.on('timerUpdate')
TimerUpdate(c, remainingTime) ==
  /\ c \in connected
  /\ event' = "timerUpdate"
  /\ IF HostOfOwnGame(c)
     THEN LET gameId == playerSockets[c]
          IN /\ activeGames' = [activeGames EXCEPT ![gameId].remainingTime = remainingTime,
                                                   ![gameId].lastActivity = now]
             /\ out' = <<Emit(activeGames[gameId].guest, "timerUpdate",
                              [remainingTime |-> remainingTime], rooms, connected)>>
     ELSE /\ out' = <<>>
          /\ UNCHANGED activeGames
  /\ reply' = NoReply
  /\ UNCHANGED <<playerSockets, rooms, connected, now>>

\* socket.on('gameEnd')
GameEnd(c) ==
  /\ c \in connected
  /\ event' = "gameEnd"
  /\ IF HostOfOwnGame(c)
     THEN LET gameId == playerSockets[c]
              r == removeGame(activeGames, playerSockets, gameId)
          IN /\ out' = <<Emit(gameId, "gameEnd", NoData, rooms, connected)>>
             /\ activeGames' = r.activeGames
             /\ playerSockets' = r.playerSockets
     ELSE /\ out' = <<>>
          /\ UNCHANGED <<activeGames, playerSockets>>
  /\ reply' = NoReply
  /\ UNCHANGED <<rooms, connected, now>>

\* socket.on('requestGameList')
RequestGameList(c) ==
  /\ c \in connected
  /\ event' = "requestGameList"
  /\ reply' = [status |-> "list", games |-> getAvailableGames(activeGames)]
  /\ out' = <<>>
  /\ UNCHANGED <<activeGames, playerSockets, rooms, connected, now>>

\* socket.on('disconnect'): socket.io has taken the socket out of every room
\* before the handler runs
Disconnect(c) ==
  /\ c \in connected
  /\ event' = "disconnect"
  /\ connected' = connected \ {c}
  /\ rooms' = [g \in DOMAIN rooms |-> rooms[g] \ {c}]
  /\ LET gameId == MapGet(playerSockets, c)
     IN IF Falsy(gameId) \/ ~MapHas(activeGames, gameId)
        THEN /\ out' = <<>>
             /\ UNCHANGED <<activeGames, playerSockets>>
        ELSE LET game == activeGames[gameId]
             IN IF c = game.host
                THEN LET r == removeGame(activeGames, playerSockets, gameId)
                     IN /\ out' = IF ~Falsy(game.guest)
                                  THEN <<Emit(game.guest, "hostDisconnected", NoData,
                                              rooms', connected')>>
                                  ELSE <<>>
                        /\ activeGames' = r.activeGames
                        /\ playerSockets' = MapDelete(r.playerSockets, c)
                ELSE IF c = game.guest
                THEN /\ activeGames' = [activeGames EXCEPT ![gameId].guest = NULL,
                                                           ![gameId].guestName = NULL,
                                                           ![gameId].status = "waiting"]
                     /\ out' = <<Emit(game.host, "guestDisconnected", NoData,
                                      rooms', connected')>>
                     /\ playerSockets' = MapDelete(playerSockets, c)
                ELSE /\ out' = <<>>
                     /\ activeGames' = activeGames
                     /\ playerSockets' = MapDelete(playerSockets, c)
  /\ reply' = NoReply
  /\ UNCHANGED now

\* the setInterval callback of the GameManager constructor
Sweep ==
  /\ now >= cleanupPeriod
  /\ event' = "cleanupInterval"
  /\ LET r == cleanupInactiveGames(activeGames, playerSockets, now)
     IN /\ activeGames' = r.activeGames
        /\ playerSockets' = r.playerSockets
  /\ reply' = NoReply
  /\ out' = <<>>
  /\ UNCHANGED <<rooms, connected, now>>

\* time passes between two events
Tick ==
  /\ \E t \in Instants : t > now /\ now' = t
  /\ event' = "clock"
  /\ reply' = NoReply
  /\ out' = <<>>
  /\ UNCHANGED <<activeGames, playerSockets, rooms, connected>>

\* relay payloads: the values a new session already stores, so that a relay
\* event changes lastActivity alone
Balls == {NULL}
Coords == {0}
Scores == {0}
Times == {initialRemainingTime}

\* a matchmaking or teardown event of one of the sockets of C; log records
\* nothing outside a join race and a run with fairness
LobbyEvent(C) ==
  \/ \E c \in C, g \in DOMAIN rooms : \E n \in NamesOf(c) : CreateGame(c, n, g) /\ UNCHANGED log
  \/ \E c \in C, g \in DOMAIN rooms : \E n \in NamesOf(c) : JoinGame(c, g, n) /\ UNCHANGED log
  \/ \E c \in C, g \in DOMAIN rooms : CancelGame(c, g) /\ UNCHANGED log
  \/ \E c \in C : GameEnd(c) /\ UNCHANGED log
  \/ \E c \in C : RequestGameList(c) /\ UNCHANGED log
  \/ \E c \in C : Disconnect(c) /\ UNCHANGED log

\* a heartbeat reply or a relay event of one of the sockets of C
RelayEvent(C) ==
  \/ \E c \in C : Pong(c) /\ UNCHANGED log
  \/ \E c \in C, y \in Coords : PaddleMove(c, y) /\ UNCHANGED log
  \/ \E c \in C, b \in Balls : BallUpdate(c, b) /\ UNCHANGED log
  \/ \E c \in C, l \in Scores, r \in Scores : ScoreUpdate(c, l, r) /\ UNCHANGED log
  \/ \E c \in C, t \in Times : TimerUpdate(c, t) /\ UNCHANGED log

\* an event of one of the sockets of C
SocketEvent(C) == LobbyEvent(C) \/ RelayEvent(C)

\* two connections, the sweep timer and the clock
Init == InitOf(Pair)

Next ==
  \/ SocketEvent(Pair)
  \/ Sweep /\ UNCHANGED log
  \/ Tick /\ UNCHANGED log

Spec == Init /\ [][Next]_vars

\* three connections within one instant of the clock; a heartbeat reply or a
\* relay event would write the values the sessions already hold
InitTrio == InitOf(Conns)

NextTrio == LobbyEvent(Conns)

SpecTrio == InitTrio /\ [][NextTrio]_vars

\* a run of joinGame events aimed at one waiting session, then at most
\* MaxRaceLen joins: the session any of the three connections has just
\* created, or the one its host left behind when it created a second session
\* and disconnected (the disconnect handler removes the second one only)
MaxRaceLen == 3

InitJoinRace ==
  /\ \E ids \in IdDraws : \E h \in Conns, g \in ids : \E n \in NamesOf(h) :
       LET r == createGame(EmptyMap, EmptyMap, g, h, n, 0)
       IN \/ /\ activeGames = r.activeGames
             /\ playerSockets = r.playerSockets
             /\ rooms = [x \in ids |-> IF x = g THEN {h} ELSE {}]
             /\ connected = Conns
             /\ event = "createGame"
             /\ reply = [status |-> "success", gameId |-> g]
          \/ \E g2 \in ids \ {g} :
               LET r2 == createGame(r.activeGames, r.playerSockets, g2, h, n, 0)
                   r3 == removeGame(r2.activeGames, r2.playerSockets, g2)
               IN /\ ~Falsy(g2)
                  /\ activeGames = r3.activeGames
                  /\ playerSockets = MapDelete(r3.playerSockets, h)
                  /\ rooms = [x \in ids |-> {}]
                  /\ connected = Conns \ {h}
                  /\ event = "disconnect"
                  /\ reply = NoReply
  /\ now = 0
  /\ out = <<>>
  /\ log = <<>>

NextJoinRace ==
  /\ Len(log) < MaxRaceLen
  /\ \E c \in Conns, g \in DOMAIN activeGames : \E n \in NamesOf(c) :
       /\ JoinGame(c, g, n)
       /\ log' = Append(log, [caller |-> c, name |-> n, reply |-> reply', out |-> out'])

SpecJoinRace == InitJoinRace /\ [][NextJoinRace]_vars

(* ---------------------------------------------------------------------- *)
(* Claims                                                                  *)
(* ---------------------------------------------------------------------- *)

\* the sessions of ag in which connection c is host, and those in which it is guest
HostedBy(ag, c) == {g \in DOMAIN ag : ag[g].host = c}
GuestIn(ag, c) == {g \in DOMAIN ag : ag[g].guest = c}

\* C1: in every reachable state each connection is host or guest of at most
\* one session of activeGames, and never both host and guest
C1_AtMostOneSession ==
  \A c \in Conns :
    Cardinality(HostedBy(activeGames, c)) + Cardinality(GuestIn(activeGames, c)) <= 1

\* C2: once the disconnect handler of a connection has run, no session of
\* activeGames has that connection as its host
C2_NoSessionOfDisconnectedHost ==
  \A g \in DOMAIN activeGames : activeGames[g].host \in connected

\* C3: createGame inserts under an identifier that was not in activeGames: the
\* table grows by exactly one session and every earlier session is unchanged
C3_CreateInsertsFresh ==
  [][\A c \in Conns, g \in DOMAIN rooms : \A n \in NamesOf(c) :
       CreateGame(c, n, g) =>
         /\ g \notin DOMAIN activeGames
         /\ Cardinality(DOMAIN activeGames') = Cardinality(DOMAIN activeGames) + 1
         /\ \A x \in DOMAIN activeGames :
              x \in DOMAIN activeGames' /\ activeGames'[x] = activeGames[x]]_vars

\* C4: joinGame by the host of the targeted session is answered with the
\* error reply, and a session whose guest slot was empty keeps guest = null
\* and status = waiting
C4_HostCannotJoinOwnGame ==
  [][\A c \in Conns, g \in DOMAIN activeGames : \A n \in NamesOf(c) :
       (JoinGame(c, g, n) /\ activeGames[g].host = c) =>
         /\ reply'.status = "error"
         /\ reply'.message = "Game not found or full"
         /\ activeGames[g].guest = NULL =>
              /\ activeGames'[g].guest = NULL
              /\ activeGames'[g].status = "waiting"]_vars

\* C5: joinGame on an id absent from activeGames, or on a session whose
\* status is playing, gets the error reply, emits nothing, and leaves
\* activeGames and playerSockets as they were
C5_JoinFails ==
  [][event' = "joinGame" =>
     \A c \in Conns, g \in DOMAIN rooms : \A n \in NamesOf(c) :
       (JoinGame(c, g, n)
          /\ (g \notin DOMAIN activeGames \/ activeGames[g].status = "playing")) =>
         /\ reply' = [status |-> "error", message |-> "Game not found or full"]
         /\ out' = <<>>
         /\ activeGames' = activeGames
         /\ playerSockets' = playerSockets]_vars

\* a join has just been refused while every id names a session that is playing
\* with a guest other than its host
C5_Witness ==
  /\ event = "joinGame"
  /\ reply.status = "error"
  /\ DOMAIN activeGames = DOMAIN rooms
  /\ \A g \in DOMAIN rooms :
       /\ activeGames[g].status = "playing"
       /\ activeGames[g].guest \in Conns \ {activeGames[g].host}

\* the positions of the log whose join was acknowledged with success
Winners == {i \in DOMAIN log : log[i].reply.status = "success"}

\* C6: of the joinGame events aimed at one waiting session exactly one is
\* acknowledged with success, every other gets the error reply and emits
\* nothing, the session's guest is the successful caller, and the only
\* emission is one gameStart to the host carrying that caller's name
C6_OneJoinWins ==
  log # <<>> =>
    \E g \in DOMAIN activeGames :
      /\ DOMAIN activeGames = {g}
      /\ Cardinality(Winners) = 1
      /\ \A i \in DOMAIN log :
           IF i \in Winners
           THEN /\ activeGames[g].guest = log[i].caller
                /\ activeGames[g].guestName = log[i].name
                /\ log[i].out = <<[to |-> activeGames[g].host, ev |-> "gameStart",
                                   data |-> [rightPlayer |-> log[i].name],
                                   rcpt |-> {activeGames[g].host}]>>
           ELSE /\ log[i].reply = [status |-> "error", message |-> "Game not found or full"]
                /\ log[i].out = <<>>

\* three joins from three distinct connections have been handled
C6_Witness ==
  /\ Len(log) = 3
  /\ {log[i].caller : i \in DOMAIN log} = Conns
  /\ \E i \in DOMAIN log : log[i].reply.status = "error"

\* C7: a step that takes a session out of activeGames leaves no playerSockets
\* entry for its host or its guest; only createGame brings an id into
\* activeGames, and joinGame with an id that is not in activeGames gets the
\* error reply; removeGame on an id that is not in activeGames changes nothing
C7_RemovalClearsIndex ==
  [][/\ \A g \in DOMAIN activeGames :
          g \notin DOMAIN activeGames' =>
            /\ activeGames[g].host \notin DOMAIN playerSockets'
            /\ activeGames[g].guest \notin DOMAIN playerSockets'
     /\ DOMAIN activeGames' \ DOMAIN activeGames # {} => event' = "createGame"
     /\ \A c \in Conns, g \in DOMAIN rooms \ DOMAIN activeGames : \A n \in NamesOf(c) :
          (event' = "joinGame" /\ JoinGame(c, g, n)) =>
            /\ reply' = [status |-> "error", message |-> "Game not found or full"]
            /\ activeGames' = activeGames
     /\ \A g \in DOMAIN rooms \ DOMAIN activeGames :
          removeGame(activeGames, playerSockets, g) =
            [activeGames |-> activeGames, playerSockets |-> playerSockets]]_vars

\* a host has just cancelled a session that had another connection as guest
C7_Witness ==
  /\ event = "cancelGame"
  /\ Len(out) = 1
  /\ out[1].ev = "gameCancelled"
  /\ out[1].to \in connected
  /\ out[1].to \notin DOMAIN playerSockets
  /\ DOMAIN rooms \ DOMAIN activeGames # {}

\* C8: when a connection recorded as the guest of a session disconnects, the
\* session stays in activeGames with guest = null, guestName = null and
\* status = waiting, guestDisconnected is sent to its host, the host's
\* playerSockets entry is unchanged and the leaver has no playerSockets entry
C8_GuestDisconnect ==
  [][\A c \in Conns, g \in DOMAIN activeGames :
       (Disconnect(c) /\ activeGames[g].guest = c) =>
         /\ g \in DOMAIN activeGames'
         /\ activeGames'[g].guest = NULL
         /\ activeGames'[g].guestName = NULL
         /\ activeGames'[g].status = "waiting"
         /\ \E i \in DOMAIN out' :
              out'[i].ev = "guestDisconnected" /\ out'[i].to = activeGames[g].host
         /\ MapGet(playerSockets', activeGames[g].host)
              = MapGet(playerSockets, activeGames[g].host)
         /\ c \notin DOMAIN playerSockets']_vars

\* C9: the guest branch of the disconnect handler sets the session's
\* lastActivity to the current time
C9_GuestLeaveTouches ==
  [][\A c \in Conns, g \in DOMAIN activeGames :
       (/\ Disconnect(c)
        /\ MapGet(playerSockets, c) = g
        /\ activeGames[g].host # c
        /\ activeGames[g].guest = c) =>
         /\ g \in DOMAIN activeGames'
         /\ activeGames'[g].lastActivity = now]_vars

\* C10: one run of cleanupInactiveGames removes exactly the sessions whose
\* lastActivity is strictly before now - inactiveThreshold, and every other
\* session stays with all of its fields unchanged
C10_SweepExact ==
  [][Sweep =>
       /\ DOMAIN activeGames' =
            {g \in DOMAIN activeGames :
               ~(activeGames[g].lastActivity < now - inactiveThreshold)}
       /\ \A g \in DOMAIN activeGames' : activeGames'[g] = activeGames[g]]_vars

\* a sweep has just run that left a session in place while an id whose room
\* still holds a socket without playerSockets entry names no session
C10_Witness ==
  /\ event = "cleanupInterval"
  /\ now > inactiveThreshold
  /\ activeGames # EmptyMap
  /\ \E g \in DOMAIN rooms \ DOMAIN activeGames :
       \E c \in rooms[g] : c \notin DOMAIN playerSockets

\* the role connection c holds in the session playerSockets binds it to
RoleOf(c) ==
  LET gameId == MapGet(playerSockets, c)
  IN IF Falsy(gameId) \/ ~MapHas(activeGames, gameId) THEN "unbound"
     ELSE IF activeGames[gameId].host = c THEN "host"
     ELSE IF activeGames[gameId].guest = c THEN "guest"
     ELSE "none"

\* C11: a relay event from a connection that is not bound to a session, or
\* that does not hold the role the event requires (host for ballUpdate,
\* scoreUpdate and timerUpdate; host or guest for paddleMove), emits nothing
\* and changes no field of any session, lastActivity included
C11_UnauthorizedRelayDropped ==
  [][\A c \in Conns :
       /\ (event' = "paddleMove" /\ RoleOf(c) \notin {"host", "guest"}
             /\ \E y \in Coords : PaddleMove(c, y)) =>
            (out' = <<>> /\ activeGames' = activeGames)
       /\ (event' = "ballUpdate" /\ RoleOf(c) # "host"
             /\ \E b \in Balls : BallUpdate(c, b)) =>
            (out' = <<>> /\ activeGames' = activeGames)
       /\ (event' = "scoreUpdate" /\ RoleOf(c) # "host"
             /\ \E l \in Scores, r \in Scores : ScoreUpdate(c, l, r)) =>
            (out' = <<>> /\ activeGames' = activeGames)
       /\ (event' = "timerUpdate" /\ RoleOf(c) # "host"
             /\ \E t \in Times : TimerUpdate(c, t)) =>
            (out' = <<>> /\ activeGames' = activeGames)]_vars

\* the sessions whose host is c and whose guest slot is taken
HostedWithGuest(ag, c) == {g \in HostedBy(ag, c) : ag[g].guest # NULL}

\* the single emission of a host-only relay: addressed to the guest alone
RelayedTo(o, guest, name, data) ==
  /\ Len(o) = 1
  /\ o[1].to = guest
  /\ o[1].ev = name
  /\ o[1].data = data
  /\ o[1].rcpt \subseteq {guest}

\* C12: when the host of a session that has a guest sends ballUpdate,
\* scoreUpdate or timerUpdate, that session stores exactly the payload, its
\* lastActivity becomes the current time, and exactly one event of the same
\* kind and payload is emitted, addressed to that session's guest only
C12_HostRelayStoredAndForwarded ==
  [][\A c \in Conns : \A g \in HostedWithGuest(activeGames, c) :
       /\ \A b \in Balls :
            (event' = "ballUpdate" /\ BallUpdate(c, b)) =>
              /\ activeGames' = [activeGames EXCEPT ![g].ball = b,
                                                    ![g].lastActivity = now]
              /\ RelayedTo(out', activeGames[g].guest, "ballUpdate", [ball |-> b])
       /\ \A l \in Scores, r \in Scores :
            (event' = "scoreUpdate" /\ ScoreUpdate(c, l, r)) =>
              /\ activeGames' = [activeGames EXCEPT ![g].leftScore = l,
                                                    ![g].rightScore = r,
                                                    ![g].lastActivity = now]
              /\ RelayedTo(out', activeGames[g].guest, "scoreUpdate",
                           [leftScore |-> l, rightScore |-> r])
       /\ \A t \in Times :
            (event' = "timerUpdate" /\ TimerUpdate(c, t)) =>
              /\ activeGames' = [activeGames EXCEPT ![g].remainingTime = t,
                                                    ![g].lastActivity = now]
              /\ RelayedTo(out', activeGames[g].guest, "timerUpdate",
                           [remainingTime |-> t])]_vars

\* the participants of a session: its host and, when the slot is taken, its guest
Participants(game) == {game.host} \cup (IF game.guest = NULL THEN {} ELSE {game.guest})

\* one emission of the named event, delivered to exactly the connections of to
DeliveredOnce(o, name, to) ==
  /\ Len(o) = 1
  /\ o[1].ev = name
  /\ o[1].rcpt = to

\* C13: a session destroyed by its host notifies the other participant in the
\* same step, exactly once: an accepted gameEnd reaches the host and the
\* current guest of the session and no connection outside it; cancelGame
\* reaches the guest with gameCancelled and a host disconnect reaches the
\* guest with hostDisconnected, when there is a guest
C13_DestroyNotifies ==
  [][\A c \in Conns :
       /\ (event' = "gameEnd" /\ HostOfOwnGame(c) /\ GameEnd(c)) =>
            DeliveredOnce(out', "gameEnd", Participants(activeGames[playerSockets[c]]))
       /\ \A g \in HostedBy(activeGames, c) :
            (event' = "cancelGame" /\ CancelGame(c, g)) =>
              IF activeGames[g].guest = NULL
              THEN out' = <<>>
              ELSE DeliveredOnce(out', "gameCancelled", {activeGames[g].guest})
       /\ (event' = "disconnect" /\ RoleOf(c) = "host" /\ Disconnect(c)) =>
            IF activeGames[playerSockets[c]].guest = NULL
            THEN out' = <<>>
            ELSE DeliveredOnce(out', "hostDisconnected",
                               {activeGames[playerSockets[c]].guest})]_vars

\* the ids a game list names
ListedIds(games) == {e.id : e \in games}

\* the sessions whose guest slot is empty
EmptySlot(ag) == {g \in DOMAIN ag : ag[g].guest = NULL}

\* the sessions whose guest connection has disconnected
GuestGone(ag, conn) == {g \in DOMAIN ag : ag[g].guest # NULL /\ ag[g].guest \notin conn}

\* C14: requestGameList from any connection returns exactly one entry for each
\* session whose guest slot is empty and none for a session with a guest; a
\* session whose guest has disconnected is listed again, and a joinGame on it
\* by another connection that is bound to no session succeeds
C14_ListIsOpenSessions ==
  [][/\ \A c \in Conns :
          (event' = "requestGameList" /\ RequestGameList(c)) =>
            /\ reply'.status = "list"
            /\ ListedIds(reply'.games) = EmptySlot(activeGames)
            /\ Cardinality(reply'.games) = Cardinality(EmptySlot(activeGames))
            /\ GuestGone(activeGames, connected) \subseteq ListedIds(reply'.games)
     /\ \A c \in Conns : \A g \in GuestGone(activeGames, connected) :
          (event' = "joinGame" /\ ~MapHas(playerSockets, c)
             /\ \E n \in NamesOf(c) : JoinGame(c, g, n)) =>
            reply'.status = "success"]_vars

\* C15: only the host destroys a session by request: a cancelGame naming a
\* session the sender is not the host of (or no session), and a gameEnd from a
\* connection that is not the host of the session it is bound to, leave
\* activeGames and playerSockets unchanged and emit nothing
C15_OnlyHostDestroys ==
  [][\A c \in Conns :
       /\ \A g \in DOMAIN rooms :
            (event' = "cancelGame"
               /\ (~MapHas(activeGames, g) \/ activeGames[g].host # c)
               /\ CancelGame(c, g)) =>
              (activeGames' = activeGames /\ playerSockets' = playerSockets /\ out' = <<>>)
       /\ (event' = "gameEnd" /\ RoleOf(c) # "host" /\ GameEnd(c)) =>
            (activeGames' = activeGames /\ playerSockets' = playerSockets /\ out' = <<>>)]_vars

\* a gameEnd was dropped while a session had its host and its guest connected
\* and bound to it: the host's gameEnd would have removed it, so the guest sent it
C15_Witness ==
  /\ event = "gameEnd"
  /\ out = <<>>
  /\ \E g \in DOMAIN activeGames :
       /\ activeGames[g].guest # NULL
       /\ activeGames[g].guest # activeGames[g].host
       /\ {activeGames[g].host, activeGames[g].guest} = connected
       /\ RoleOf(activeGames[g].host) = "host"
       /\ RoleOf(activeGames[g].guest) = "guest"

\* the session a handler reaches through playerSockets:
\* const gameId = playerSockets.get(socket.id); if (gameId) { const game =
\* activeGames.get(gameId); if (game) ... }
BoundGame(c) ==
  LET gameId == MapGet(playerSockets, c)
  IN IF Falsy(gameId) \/ ~MapHas(activeGames, gameId) THEN {} ELSE {gameId}

\* the session a host-only relay handler writes
HostGame(c) == IF HostOfOwnGame(c) THEN {playerSockets[c]} ELSE {}

\* the session joinGame writes: the one it returns, none when it returns null
JoinedGame(c, gameId, playerName) ==
  {game.id : game \in joinGame(activeGames, playerSockets, gameId, c, playerName, now).game}

\* log keeps the socket whose handler ran last (null for the timer and the
\* clock) and the sessions whose lastActivity that handler assigned
Noted(c, written) == log' = <<[sender |-> c, written |-> written]>>

\* the events of Next, with the writes of lastActivity noted
NextLive ==
  \/ \E c \in Pair : Pong(c) /\ Noted(c, BoundGame(c))
  \/ \E c \in Pair, g \in DOMAIN rooms : \E n \in NamesOf(c) :
       CreateGame(c, n, g) /\ Noted(c, {g})
  \/ \E c \in Pair, g \in DOMAIN rooms : \E n \in NamesOf(c) :
       JoinGame(c, g, n) /\ Noted(c, JoinedGame(c, g, n))
  \/ \E c \in Pair, g \in DOMAIN rooms : CancelGame(c, g) /\ Noted(c, {})
  \/ \E c \in Pair, y \in Coords : PaddleMove(c, y) /\ Noted(c, BoundGame(c))
  \/ \E c \in Pair, b \in Balls : BallUpdate(c, b) /\ Noted(c, HostGame(c))
  \/ \E c \in Pair, l \in Scores, r \in Scores :
       ScoreUpdate(c, l, r) /\ Noted(c, HostGame(c))
  \/ \E c \in Pair, t \in Times : TimerUpdate(c, t) /\ Noted(c, HostGame(c))
  \/ \E c \in Pair : GameEnd(c) /\ Noted(c, {})
  \/ \E c \in Pair : RequestGameList(c) /\ Noted(c, {})
  \/ \E c \in Pair : Disconnect(c) /\ Noted(c, {})
  \/ Sweep /\ Noted(NULL, {})
  \/ Tick /\ Noted(NULL, {})

\* the interval timer keeps firing and time keeps passing
SpecLive ==
  /\ Init /\ [][NextLive]_vars
  /\ WF_vars(Tick /\ Noted(NULL, {}))
  /\ WF_vars(Sweep /\ Noted(NULL, {}))

\* the last instant of the clock
LastInstant == inactiveThreshold + MaxJitter

\* session g is present and the clock can still pass its idle threshold
Expirable(g) ==
  /\ MapHas(activeGames, g)
  /\ activeGames[g].lastActivity + inactiveThreshold < LastInstant

\* the last step assigned the lastActivity of session g on behalf of one of its
\* participants: its host or guest sent it, or it created or joined g
Renewed(g) ==
  /\ log # <<>>
  /\ g \in log[1].written
  /\ MapHas(activeGames, g)
  /\ log[1].sender \in Participants(activeGames[g])

\* C16: with the sweep timer firing and time advancing, a session is
\* eventually removed from activeGames unless a relay event of a participant is
\* accepted, a join succeeds or a participant replies to the heartbeat; and
\* the sweep removes no session whose last touch is at most the threshold old
C16_IdleSessionsSwept ==
  /\ \A g \in GameIds :
       [](Expirable(g) => <>(~MapHas(activeGames, g) \/ Renewed(g)))
  /\ [][Sweep => \A g \in DOMAIN activeGames \ DOMAIN activeGames' :
                   now - activeGames[g].lastActivity > inactiveThreshold]_vars

----------------------------------------------------------------------------
\* The handler set of src/unnamed/part_000: the same two maps at module level,
\* no lastActivity, no heartbeat, no sweep, and answers sent as events to the
\* calling socket instead of acknowledgement callbacks.

GAME_TIME == 120

\* const removeGame = (gameId) => { activeGames.delete(gameId); }
removeGame_part000(ag, gameId) == MapDelete(ag, gameId)

\* the gameData literal of part_000's 'createGame'
NewGame_part000(gameId, hostId, hostName) ==
  [id |-> gameId, host |-> hostId, hostName |-> hostName,
   guest |-> NULL, guestName |-> NULL,
   ball |-> NULL, leftScore |-> 0, rightScore |-> 0,
   leftPaddle |-> [y |-> 0], rightPaddle |-> [y |-> 0],
   remainingTime |-> GAME_TIME,
   startTime |-> NULL, status |-> "waiting"]

\* socket.on('createGame'), gameId being what generateGameId returns
CreateGame_part000(c, playerName, gameId) ==
  /\ c \in connected
  /\ event' = "createGame"
  /\ activeGames' = MapSet(activeGames, gameId, NewGame_part000(gameId, c, playerName))
  /\ playerSockets' = MapSet(playerSockets, c, gameId)
  /\ rooms' = [rooms EXCEPT ![gameId] = @ \cup {c}]
  /\ out' = <<Emit(c, "gameCreated", [gameId |-> gameId], rooms', connected)>>
  /\ reply' = NoReply
  /\ UNCHANGED <<connected, now>>

\* socket.on('joinGame')
JoinGame_part000(c, gameId, playerName) ==
  /\ c \in connected
  /\ event' = "joinGame"
  /\ IF ~MapHas(activeGames, gameId)
     THEN /\ out' = <<Emit(c, "gameNotFound", NoData, rooms, connected)>>
          /\ UNCHANGED <<activeGames, playerSockets, rooms>>
     ELSE IF ~Falsy(activeGames[gameId].guest)
     THEN /\ out' = <<Emit(c, "gameFull", NoData, rooms, connected)>>
          /\ UNCHANGED <<activeGames, playerSockets, rooms>>
     ELSE /\ activeGames' = [activeGames EXCEPT ![gameId].guest = c,
                                                ![gameId].guestName = playerName,
                                                ![gameId].status = "starting"]
          /\ playerSockets' = MapSet(playerSockets, c, gameId)
          /\ rooms' = [rooms EXCEPT ![gameId] = @ \cup {c}]
          /\ out' = <<Emit(activeGames[gameId].host, "gameStart",
                           [rightPlayer |-> playerName], rooms', connected)>>
  /\ reply' = NoReply
  /\ UNCHANGED <<connected, now>>

\* socket.on('cancelGame')
CancelGame_part000(c, gameId) ==
  /\ c \in connected
  /\ event' = "cancelGame"
  /\ IF MapHas(activeGames, gameId) /\ activeGames[gameId].host = c
     THEN /\ out' = IF ~Falsy(activeGames[gameId].guest)
                    THEN <<Emit(activeGames[gameId].guest, "gameCancelled", NoData,
                                rooms, connected)>>
                    ELSE <<>>
          /\ activeGames' = removeGame_part000(activeGames, gameId)
     ELSE /\ out' = <<>>
          /\ UNCHANGED activeGames
  /\ reply' = NoReply
  /\ UNCHANGED <<playerSockets, rooms, connected, now>>

\* socket.on('paddleMove')
PaddleMove_part000(c, y) ==
  /\ c \in connected
  /\ event' = "paddleMove"
  /\ LET gameId == MapGet(playerSockets, c)
     IN IF Falsy(gameId) \/ ~MapHas(activeGames, gameId)
        THEN /\ out' = <<>>
             /\ UNCHANGED activeGames
        ELSE LET game == activeGames[gameId]
             IN IF c = game.host
                THEN /\ activeGames' = [activeGames EXCEPT ![gameId].leftPaddle.y = y]
                     /\ out' = <<Emit(game.guest, "paddleMove", [y |-> y], rooms, connected)>>
                ELSE IF c = game.guest
                THEN /\ activeGames' = [activeGames EXCEPT ![gameId].rightPaddle.y = y]
                     /\ out' = <<Emit(game.host, "paddleMove", [y |-> y], rooms, connected)>>
                ELSE /\ out' = <<>>
                     /\ UNCHANGED activeGames
  /\ reply' = NoReply
  /\ UNCHANGED <<playerSockets, rooms, connected, now>>

\* socket.on('ballUpdate')
BallUpdate_part000(c, ball) ==
  /\ c \in connected
  /\ event' = "ballUpdate"
  /\ IF HostOfOwnGame(c)
     THEN LET gameId == playerSockets[c]
          IN /\ activeGames' = [activeGames EXCEPT ![gameId].ball = ball]
             /\ out' = <<Emit(activeGames[gameId].guest, "ballUpdate",
                              [ball |-> ball], rooms, connected)>>
     ELSE /\ out' = <<>>
          /\ UNCHANGED activeGames
  /\ reply' = NoReply
  /\ UNCHANGED <<playerSockets, rooms, connected, now>>

\* socket.on('scoreUpdate')
ScoreUpdate_part000(c, leftScore, rightScore) ==
  /\ c \in connected
  /\ event' = "scoreUpdate"
  /\ IF HostOfOwnGame(c)
     THEN LET gameId == playerSockets[c]
          IN /\ activeGames' = [activeGames EXCEPT ![gameId].leftScore = leftScore,
                                                   ![gameId].rightScore = rightScore]
             /\ out' = <<Emit(activeGames[gameId].guest, "scoreUpdate",
                              [leftScore |-> leftScore, rightScore |-> rightScore],
                              rooms, connected)>>
     ELSE /\ out' = <<>>
          /\ UNCHANGED activeGames
  /\ reply' = NoReply
  /\ UNCHANGED <<playerSockets, rooms, connected, now>>

\* socket.on('timerUpdate')
TimerUpdate_part000(c, remainingTime) ==
  /\ c \in connected
  /\ event' = "timerUpdate"
  /\ IF HostOfOwnGame(c)
     THEN LET gameId == playerSockets[c]
          IN /\ activeGames' = [activeGames EXCEPT ![gameId].remainingTime = remainingTime]
             /\ out' = <<Emit(activeGames[gameId].guest, "timerUpdate",
                              [remainingTime |-> remainingTime], rooms, connected)>>
     ELSE /\ out' = <<>>
          /\ UNCHANGED activeGames
  /\ reply' = NoReply
  /\ UNCHANGED <<playerSockets, rooms, connected, now>>

\* socket.on('gameEnd')
GameEnd_part000(c) ==
  /\ c \in connected
  /\ event' = "gameEnd"
  /\ IF HostOfOwnGame(c)
     THEN /\ out' = <<Emit(playerSockets[c], "gameEnd", NoData, rooms, connected)>>
          /\ activeGames' = removeGame_part000(activeGames, playerSockets[c])
     ELSE /\ out' = <<>>
          /\ UNCHANGED activeGames
  /\ reply' = NoReply
  /\ UNCHANGED <<playerSockets, rooms, connected, now>>

\* socket.on('requestGameList')
RequestGameList_part000(c) ==
  /\ c \in connected
  /\ event' = "requestGameList"
  /\ out' = <<Emit(c, "gameList",
                   [games |-> {[id |-> activeGames[g].id,
                                name |-> activeGames[g].hostName \o "'s Game"] :
                                 g \in {h \in DOMAIN activeGames :
                                          activeGames[h].status = "waiting"}}],
                   rooms, connected)>>
  /\ reply' = NoReply
  /\ UNCHANGED <<activeGames, playerSockets, rooms, connected, now>>

\* socket.on('disconnect')
Disconnect_part000(c) ==
  /\ c \in connected
  /\ event' = "disconnect"
  /\ connected' = connected \ {c}
  /\ rooms' = [g \in DOMAIN rooms |-> rooms[g] \ {c}]
  /\ LET gameId == MapGet(playerSockets, c)
     IN IF Falsy(gameId) \/ ~MapHas(activeGames, gameId)
        THEN /\ out' = <<>>
             /\ UNCHANGED <<activeGames, playerSockets>>
        ELSE LET game == activeGames[gameId]
             IN /\ IF c = game.host
                   THEN /\ out' = IF ~Falsy(game.guest)
                                  THEN <<Emit(game.guest, "hostDisconnected", NoData,
                                              rooms', connected')>>
                                  ELSE <<>>
                        /\ activeGames' = removeGame_part000(activeGames, gameId)
                   ELSE IF c = game.guest
                   THEN /\ activeGames' = [activeGames EXCEPT ![gameId].guest = NULL,
                                                              ![gameId].guestName = NULL,
                                                              ![gameId].status = "waiting"]
                        /\ out' = <<Emit(game.host, "guestDisconnected", NoData,
                                         rooms', connected')>>
                   ELSE /\ out' = <<>>
                        /\ activeGames' = activeGames
                /\ playerSockets' = MapDelete(playerSockets, c)
  /\ reply' = NoReply
  /\ UNCHANGED now

Times_part000 == {GAME_TIME}

Next_part000 ==
  \/ \E c \in Pair, g \in DOMAIN rooms : \E n \in NamesOf(c) :
       CreateGame_part000(c, n, g) /\ UNCHANGED log
  \/ \E c \in Pair, g \in DOMAIN rooms : \E n \in NamesOf(c) :
       JoinGame_part000(c, g, n) /\ UNCHANGED log
  \/ \E c \in Pair, g \in DOMAIN rooms : CancelGame_part000(c, g) /\ UNCHANGED log
  \/ \E c \in Pair, y \in Coords : PaddleMove_part000(c, y) /\ UNCHANGED log
  \/ \E c \in Pair, b \in Balls : BallUpdate_part000(c, b) /\ UNCHANGED log
  \/ \E c \in Pair, l \in Scores, r \in Scores :
       ScoreUpdate_part000(c, l, r) /\ UNCHANGED log
  \/ \E c \in Pair, t \in Times_part000 : TimerUpdate_part000(c, t) /\ UNCHANGED log
  \/ \E c \in Pair : GameEnd_part000(c) /\ UNCHANGED log
  \/ \E c \in Pair : RequestGameList_part000(c) /\ UNCHANGED log
  \/ \E c \in Pair : Disconnect_part000(c) /\ UNCHANGED log

Spec_part000 == Init /\ [][Next_part000]_vars

\* C17: in part_000, once cancelGame, gameEnd or a host disconnect has removed
\* a session, no playerSockets entry maps a connection to the removed id
C17_RemovalClearsIndex_part000 ==
  [][event' \in {"cancelGame", "gameEnd", "disconnect"} =>
       \A g \in DOMAIN activeGames \ DOMAIN activeGames' :
         \A c \in DOMAIN playerSockets' : playerSockets'[c] # g]_vars

----------------------------------------------------------------------------
\* C18: in server.js playerSockets and activeGames agree: the host of every
\* session, and its guest when it has one, is mapped to the session's id, and
\* every playerSockets entry names a session that exists and has the
\* connection as its host or guest
C18_IndexAgreesWithTable ==
  /\ \A g \in DOMAIN activeGames :
       /\ MapGet(playerSockets, activeGames[g].host) = g
       /\ activeGames[g].guest # NULL => MapGet(playerSockets, activeGames[g].guest) = g
  /\ \A c \in DOMAIN playerSockets :
       /\ MapHas(activeGames, playerSockets[c])
       /\ c \in Participants(activeGames[playerSockets[c]])

\* C19: a step that removes sessions (cancelGame, gameEnd, host disconnect,
\* sweep) leaves the playerSockets entry of every connection that is mapped
\* to a session surviving the step as it was
C19_RemovalKeepsOtherEntries ==
  [][(event' \in {"cancelGame", "gameEnd", "disconnect", "cleanupInterval"}
        /\ DOMAIN activeGames' # DOMAIN activeGames) =>
       \A c \in DOMAIN playerSockets :
         MapHas(activeGames', playerSockets[c]) =>
           MapGet(playerSockets', c) = playerSockets[c]]_vars

\* C20: every session of server.js is waiting or playing, playing exactly
\* when it has a guest and waiting exactly when guest and guestName are null
C20_StatusTracksGuest ==
  \A g \in DOMAIN activeGames :
    /\ activeGames[g].status \in {"waiting", "playing"}
    /\ activeGames[g].status = "playing" <=> activeGames[g].guest # NULL
    /\ activeGames[g].status = "waiting" <=>
         (activeGames[g].guest = NULL /\ activeGames[g].guestName = NULL)

\* a guest has just disconnected from a session that is waiting again, next
\* to a session that is playing
C20_Witness ==
  /\ event = "disconnect"
  /\ Len(out) = 1
  /\ out[1].ev = "guestDisconnected"
  /\ \E g \in DOMAIN activeGames :
       /\ activeGames[g].host = out[1].to
       /\ activeGames[g].status = "waiting"
  /\ \E g \in DOMAIN activeGames : activeGames[g].status = "playing"

====
